---- MODULE Spec2Model ----
(***************************************************************************)
(* The LiveKit edge function of src/Edge_Function/livekit-handler.ts: one  *)
(* async request handler (serve callback) that decodes a JSON body, checks *)
(* ttlSec, and dispatches on `action` to token signing or to one call of   *)
(* the platform's management API.  Several invocations of the handler may  *)
(* be in flight at once; each is suspended at its awaits (req.json(),      *)
(* at.toJwt(), the platform call).                                         *)
(***************************************************************************)
EXTENDS Integers, Sequences, FiniteSets, TLC

VARIABLES
    pc,       \* pc[h]: where invocation h of the handler stands
    req,      \* req[h]: the HTTP request invocation h is serving
    at,       \* at[h]: the AccessToken object built by invocation h
    calls,    \* calls[h]: the platform calls invocation h has issued
    thrown,   \* thrown[h]: the exception caught by invocation h's catch
    resp,     \* resp[h]: the Response the invocation returned
    clock,    \* clock[h]: the clock readings the invocation took
    reply,    \* reply[h]: what the platform answered to the invocation's call
    nresp     \* nresp[h]: responses written to the wire for that request

vars == <<pc, req, at, calls, thrown, resp, clock, reply, nresp>>

(***************************************************************************)
(* Bounds of the model.                                                    *)
(***************************************************************************)
\* Date.now() and the token's issue time range over 0..MaxTime.
MaxTime == 1
\* Numeric strings are recognised for the integers -MaxParse..MaxParse.
MaxParse == 60

\* The invocations of the handler that may be in flight together.
Handlers == {"h1", "h2"}
Times == 0..MaxTime

(***************************************************************************)
(* JavaScript values, as far as a decoded JSON body holds them.            *)
(* t is the typeof-like tag, s the text of a string (or of an object, or   *)
(* the name of a non-finite number), n the value of a finite number or of  *)
(* a boolean.                                                              *)
(***************************************************************************)
Undef == [t |-> "undefined", s |-> "", n |-> 0]
Null == [t |-> "null", s |-> "", n |-> 0]
Str(s) == [t |-> "string", s |-> s, n |-> 0]
Num(n) == [t |-> "number", s |-> "", n |-> n]
NaN == [t |-> "number", s |-> "NaN", n |-> 0]
PosInf == [t |-> "number", s |-> "Infinity", n |-> 0]
NegInf == [t |-> "number", s |-> "-Infinity", n |-> 0]
Bool(b) == [t |-> "boolean", s |-> "", n |-> IF b THEN 1 ELSE 0]
\* An object, known by its canonical JSON text.
Obj(text) == [t |-> "object", s |-> text, n |-> 0]
EmptyObj == Obj("{}")

\* a ?? b
Coalesce(a, b) == IF a.t \in {"undefined", "null"} THEN b ELSE a

\* ToBoolean
Truthy(v) ==
    CASE v.t \in {"undefined", "null"} -> FALSE
      [] v.t = "string" -> v.s # ""
      [] v.t = "number" -> IF v.s = "" THEN v.n # 0 ELSE v.s # "NaN"
      [] v.t = "boolean" -> v.n = 1
      [] OTHER -> TRUE

\* a || b
OrElse(a, b) == IF Truthy(a) THEN a ELSE b

\* String(v)
ToStr(v) ==
    CASE v.t = "undefined" -> "undefined"
      [] v.t = "null" -> "null"
      [] v.t = "string" -> v.s
      [] v.t = "number" -> IF v.s = "" THEN ToString(v.n) ELSE v.s
      [] v.t = "boolean" -> IF v.n = 1 THEN "true" ELSE "false"
      [] OTHER -> "[object Object]"

\* Number(v)
ToNum(v) ==
    CASE v.t = "undefined" -> NaN
      [] v.t = "null" -> Num(0)
      [] v.t = "number" -> v
      [] v.t = "boolean" -> Num(v.n)
      [] v.t = "string" ->
           IF v.s = "" THEN Num(0)
           ELSE IF v.s = "Infinity" THEN PosInf
           ELSE IF v.s = "-Infinity" THEN NegInf
           ELSE IF \E k \in -MaxParse..MaxParse : ToString(k) = v.s
                THEN Num(CHOOSE k \in -MaxParse..MaxParse : ToString(k) = v.s)
                ELSE NaN
      [] OTHER -> NaN

\* Number.isFinite(x)
IsFinite(x) == x.t = "number" /\ x.s = ""

\* String.prototype.toLowerCase, on the strings a request carries as action.
ToLowerCase(s) ==
    CASE s = "Admin-Token" -> "admin-token"
      [] s = "STOP-EGRESS" -> "stop-egress"
      [] s = "Frobnicate" -> "frobnicate"
      [] OTHER -> s

\* JSON.stringify(v), v never undefined where the handler calls it.
Stringify(v) ==
    CASE v.t = "string" -> "\"" \o v.s \o "\""
      [] v.t = "number" -> IF v.s = "" THEN ToString(v.n) ELSE "null"
      [] v.t = "boolean" -> IF v.n = 1 THEN "true" ELSE "false"
      [] v.t = "object" -> v.s
      [] OTHER -> "null"

(***************************************************************************)
(* Module-level configuration (lines 4-8).  The environment sets the key,  *)
(* the secret and the URL; the egress URL is not overridden.               *)
(***************************************************************************)
LK_KEY == "APIkey"
LK_SECRET == "secret"
LK_URL == "wss://lk.example"
LK_EGRESS_ENV == Undef
LK_EGRESS_URL == ToStr(Coalesce(LK_EGRESS_ENV, Str(LK_URL)))
AGENT_NAME == "interviewer-agent"

(***************************************************************************)
(* Responses (lines 124-136).  A message is the sequence of its pieces, so *)
(* that what it mentions can be read off it.                               *)
(***************************************************************************)
DefaultStatus == 200

Json(data, status) ==
    [status |-> status,
     headers |-> [k \in {"content-type"} |-> "application/json"],
     body |-> data]

\* Variant: the message goes under "message".
BadMessage(status, message) == Json([k \in {"message"} |-> message], status)

Bad(status, message) == Json([k \in {"error"} |-> message], status)

TTL_MSG == <<"ttlSec", " must be a positive number (seconds)">>
ROOM_IDENTITY_MSG == <<"roomName", " and ", "identity", " are required">>
ROOM_MSG == <<"roomName", " required">>
EGRESS_MSG == <<"egressId", " required">>
UNKNOWN_MSG ==
    <<"Unknown action. Use one of: ", "admin-token", ", ", "participant-token",
      ", ", "dispatch-agent", ", ", "start-file-egress", ", ", "stop-egress">>

\* String(e) of a caught exception.
ErrString(e) == <<e.name, ": ", e.message>>

NoExc == [name |-> "", message |-> ""]
NoResp == [status |-> 0, headers |-> <<>>, body |-> <<>>]

(***************************************************************************)
(* Requests.  hdr is the content-type header (absent, or the sequence of   *)
(* the pieces of its value), raw is what the body text decodes to, f the   *)
(* fields of a decoded object.                                             *)
(***************************************************************************)
NoFields ==
    [action |-> Undef, ttlSec |-> Undef, roomName |-> Undef, identity |-> Undef,
     egressId |-> Undef, mode |-> Undef, agentMetadata |-> Undef,
     metadata |-> Undef, participantMetadata |-> Undef]

NoHeader == [present |-> FALSE, parts |-> <<>>]
Header(parts) == [present |-> TRUE, parts |-> parts]
JsonHeader == Header(<<"application/json">>)

HeaderValues ==
    {NoHeader, Header(<<>>), JsonHeader,
     Header(<<"application/json", "; charset=utf-8">>),
     Header(<<"text/plain">>), Header(<<"Application/JSON">>)}

Request(hdr, raw, f) == [hdr |-> hdr, raw |-> raw, f |-> f]
NoReq == Request(NoHeader, "none", NoFields)

\* A body naming every field an action needs.
Full(action) ==
    [NoFields EXCEPT !.action = action, !.roomName = Str("room1"),
                     !.identity = Str("alice"), !.egressId = Str("EG_123")]

ActionValues ==
    {Undef, Str("admin-token"), Str("Admin-Token"), Str("participant-token"),
     Str("dispatch-agent"), Str("start-file-egress"), Str("stop-egress"),
     Str("STOP-EGRESS"), Str("frobnicate"), Num(5)}

TtlValues ==
    {Undef, Null, Num(60), Num(0), Num(-5), PosInf, NegInf, Str("30"),
     Str("abc"), Str(""), Bool(TRUE)}

RoomValues == {Undef, Null, Str(""), Str("room1"), Str("room2"), Num(0), Num(7)}
IdentityValues == {Undef, Str(""), Str("alice")}
EgressIdValues == {Undef, Null, Str(""), Str("EG_123"), Str("EG_456"), Num(0)}
ModeValues == {Undef, Str("text"), Str("voice"), Str("video")}
MetadataValues == {Undef, Obj("{\"topic\":\"go\"}")}

\* Every header with a body that does not decode, decodes to a non-object,
\* or names an action with its fields.
EnvelopeRequests ==
    {Request(hdr, raw, NoFields) :
        hdr \in HeaderValues, raw \in {"garbage", "null", "number"}}
    \cup {Request(hdr, "object", Full(a)) :
            hdr \in HeaderValues,
            a \in {Str("admin-token"), Str("dispatch-agent"), Str("stop-egress")}}

\* Every action with every ttlSec.
TtlRequests ==
    {Request(JsonHeader, "object", [Full(a) EXCEPT !.ttlSec = ttl]) :
        a \in ActionValues, ttl \in TtlValues}

\* participant-token with its required fields, its mode and its metadata.
ParticipantRequests ==
    {Request(JsonHeader, "object",
             [NoFields EXCEPT !.action = Str("participant-token"),
                              !.roomName = r, !.identity = i]) :
        r \in RoomValues, i \in IdentityValues}
    \cup {Request(JsonHeader, "object",
                  [Full(Str("participant-token")) EXCEPT !.mode = m]) :
            m \in ModeValues}
    \cup {Request(JsonHeader, "object",
                  [Full(Str("participant-token")) EXCEPT
                      !.agentMetadata = am, !.metadata = md,
                      !.participantMetadata = pm]) :
            am \in MetadataValues, md \in MetadataValues, pm \in MetadataValues}

\* The three platform actions with their required field.
PlatformRequests ==
    {Request(JsonHeader, "object",
             [NoFields EXCEPT !.action = a, !.roomName = r]) :
        a \in {Str("dispatch-agent"), Str("start-file-egress")}, r \in RoomValues}
    \cup {Request(JsonHeader, "object",
                  [NoFields EXCEPT !.action = Str("dispatch-agent"),
                                   !.roomName = Str("room1"),
                                   !.agentMetadata = am, !.mode = m]) :
            am \in MetadataValues, m \in {Undef, Str("text")}}
    \cup {Request(JsonHeader, "object",
                  [NoFields EXCEPT !.action = Str("stop-egress"), !.egressId = e]) :
            e \in EgressIdValues}

Requests ==
    EnvelopeRequests \cup TtlRequests \cup ParticipantRequests \cup PlatformRequests

(***************************************************************************)
(* Tokens and platform calls.                                              *)
(***************************************************************************)
NoToken ==
    [key |-> "", identity |-> "", ttl |-> Undef, metadata |-> "",
     grants |-> {}, room |-> "", agents |-> <<>>]

\* new AccessToken(LK_KEY, LK_SECRET, {identity, ttl, metadata})
AccessToken(identity, ttl, metadata) ==
    [NoToken EXCEPT !.key = LK_KEY, !.identity = identity, !.ttl = ttl,
                    !.metadata = metadata]

\* The signed token: what the object held when it was signed, and when.
Jwt(token, iat) == [claims |-> token, iat |-> iat]

NoArgs ==
    [roomName |-> "", agentName |-> "", metadata |-> "", audioOnly |-> FALSE,
     fileType |-> "", filepath |-> "", egressId |-> ""]

\* A call of a platform client: the client's URL, the method, its arguments.
Call(url, op, args) == [url |-> url, op |-> op, args |-> args, st |-> "pending"]

\* What the platform answers to a call, and how a call or a signature fails.
PlatformIds == {"ID_1", "ID_2"}
PlatformErrors == {[name |-> "TwirpError", message |-> "not_found"]}
SignErrors == {[name |-> "Error", message |-> "sign failed"]}
JsonSyntaxError == [name |-> "SyntaxError", message |-> "Unexpected token"]
NullBodyError ==
    [name |-> "TypeError", message |-> "Cannot read properties of null"]

(***************************************************************************)
(* The handler's synchronous stretches.  Each yields where the invocation  *)
(* stands next (pc), the token object and platform call it made, the       *)
(* exception it caught and the Response it returned, if any.               *)
(***************************************************************************)
Outcome(p, token, issued, e, r) ==
    [pc |-> p, at |-> token, calls |-> issued, thrown |-> e, resp |-> r,
     reads |-> <<>>]

\* The stretch read the clock: Date.now(), or the issue time of a token.
Reading(o, t) == [o EXCEPT !.reads = <<t>>]

\* return <Response>
Return(token, issued, r) == Outcome("returned", token, issued, NoExc, r)

\* Variant: the catch answers with json's default status.
CaughtDefaultStatus(token, issued, e) ==
    Outcome("returned", token, issued, e,
            Json([k \in {"error"} |-> ErrString(e)], DefaultStatus))

\* catch (e) { return json({error: String(e)}, 400) }
Caught(token, issued, e) ==
    Outcome("returned", token, issued, e,
            Json([k \in {"error"} |-> ErrString(e)], 400))

\* req.headers.get("content-type") || ""
ContentType(hdr) == IF hdr.present /\ hdr.parts # <<>> THEN hdr.parts ELSE <<>>

\* Variant: the content type is matched whatever its case.
IsJsonAnyCase(hdr) ==
    \E i \in 1..Len(ContentType(hdr)) :
        ContentType(hdr)[i] \in {"application/json", "Application/JSON"}

\* contentType.includes("application/json")
IsJson(hdr) ==
    \E i \in 1..Len(ContentType(hdr)) : ContentType(hdr)[i] = "application/json"

\* Variant: a body that names no action is taken to ask for an admin token.
DecodeActionDefaulted(body) ==
    ToLowerCase(ToStr(Coalesce(body.action, Str("admin-token"))))

\* String(body.action ?? "").toLowerCase()
DecodeAction(body) == ToLowerCase(ToStr(Coalesce(body.action, Str(""))))

\* Number(body.ttlSec ?? 3600)
TtlSec(body) == ToNum(Coalesce(body.ttlSec, Num(3600)))

\* Variant: the bound is ttlSec < 0.
TtlValidLoose(ttlSec) == IsFinite(ttlSec) /\ ttlSec.n >= 0

\* !(!Number.isFinite(ttlSec) || ttlSec <= 0)
TtlValid(ttlSec) == IsFinite(ttlSec) /\ ttlSec.n > 0

\* Variant: String(field), without the fallback to "".
FieldStringRaw(v) == ToStr(v)

\* String(field || "")
FieldString(v) == ToStr(OrElse(v, Str("")))

\* Variant: the agent is chosen by body.mode.
AgentNameByMode(body) ==
    CASE body.mode = Str("text") -> "text-agent"
      [] body.mode = Str("voice") -> "voice-agent"
      [] OTHER -> AGENT_NAME

\* The agent named in a token's roomConfig and in a dispatch.
AgentName(body) == AGENT_NAME

\* action === "admin-token"
AdminToken(ttlSec) ==
    LET token == [AccessToken("", ttlSec, "") EXCEPT
                    !.grants = {"roomCreate", "roomAdmin", "egress", "roomList"}]
    IN  Outcome("admin:toJwt", token, <<>>, NoExc, NoResp)

\* action === "participant-token"
ParticipantToken(body, ttlSec) ==
    LET roomName == FieldString(body.roomName)
        identity == FieldString(body.identity)
        agentMetadata ==
            Coalesce(body.agentMetadata, Coalesce(body.metadata, EmptyObj))
        metadataJson == Stringify(agentMetadata)
        participantMetadata ==
            Stringify(Coalesce(body.participantMetadata, EmptyObj))
        token ==
            [AccessToken(identity, ttlSec, participantMetadata) EXCEPT
                !.grants = {"roomJoin", "canPublish", "canSubscribe",
                            "canPublishData"},
                !.room = roomName,
                !.agents = <<[agentName |-> AgentName(body),
                              metadata |-> metadataJson]>>]
    IN  IF roomName = "" \/ identity = ""
        THEN Return(NoToken, <<>>, Bad(400, ROOM_IDENTITY_MSG))
        ELSE Outcome("participant:toJwt", token, <<>>, NoExc, NoResp)

\* action === "dispatch-agent"
DispatchAgent(body) ==
    LET roomName == FieldString(body.roomName)
        agentMetadata == Coalesce(body.agentMetadata, EmptyObj)
        call == Call(LK_URL, "createDispatch",
                     [NoArgs EXCEPT !.roomName = roomName,
                                    !.agentName = AgentName(body),
                                    !.metadata = Stringify(agentMetadata)])
    IN  IF roomName = ""
        THEN Return(NoToken, <<>>, Bad(400, ROOM_MSG))
        ELSE Outcome("createDispatch", NoToken, <<call>>, NoExc, NoResp)

\* action === "start-file-egress"; now is Date.now()
StartFileEgress(body, now) ==
    LET roomName == FieldString(body.roomName)
        call == Call(LK_EGRESS_URL, "startRoomCompositeEgress",
                     [NoArgs EXCEPT
                        !.roomName = roomName,
                        !.audioOnly = TRUE,
                        !.fileType = "MP4",
                        !.filepath = "recordings/" \o roomName \o "-"
                                         \o ToString(now) \o ".mp4"])
    IN  IF roomName = ""
        THEN Return(NoToken, <<>>, Bad(400, ROOM_MSG))
        ELSE Reading(Outcome("startRoomCompositeEgress", NoToken, <<call>>,
                             NoExc, NoResp), now)

\* Variant: stopEgress is called without await.
StopEgressUnawaited(body) ==
    LET egressId == FieldString(body.egressId)
        call == Call(LK_EGRESS_URL, "stopEgress",
                     [NoArgs EXCEPT !.egressId = egressId])
    IN  IF egressId = ""
        THEN Return(NoToken, <<>>, Bad(400, EGRESS_MSG))
        ELSE Return(NoToken, <<call>>,
                    Json([k \in {"ok"} |-> TRUE], DefaultStatus))

\* action === "stop-egress"
StopEgress(body) ==
    LET egressId == FieldString(body.egressId)
        call == Call(LK_EGRESS_URL, "stopEgress",
                     [NoArgs EXCEPT !.egressId = egressId])
    IN  IF egressId = ""
        THEN Return(NoToken, <<>>, Bad(400, EGRESS_MSG))
        ELSE Outcome("stopEgress", NoToken, <<call>>, NoExc, NoResp)

\* Lines 13-116: from the decoded body to the first await or return.
Handle(body, now) ==
    LET action == DecodeAction(body)
        ttlSec == TtlSec(body)
    IN  IF ~TtlValid(ttlSec) THEN Return(NoToken, <<>>, Bad(400, TTL_MSG))
        ELSE CASE action = "admin-token" -> AdminToken(ttlSec)
               [] action = "participant-token" -> ParticipantToken(body, ttlSec)
               [] action = "dispatch-agent" -> DispatchAgent(body)
               [] action = "start-file-egress" -> StartFileEgress(body, now)
               [] action = "stop-egress" -> StopEgress(body)
               [] OTHER -> Return(NoToken, <<>>, Bad(400, UNKNOWN_MSG))

\* Lines 10-12: the body is decoded only under a JSON content type.
Enter(r, now) ==
    IF IsJson(r.hdr) THEN Outcome("req.json", NoToken, <<>>, NoExc, NoResp)
    ELSE Handle(NoFields, now)

\* req.json() settles: a syntax error, or the decoded value.
Decoded(r, now) ==
    CASE r.raw = "garbage" -> Caught(NoToken, <<>>, JsonSyntaxError)
      [] r.raw = "null" -> Caught(NoToken, <<>>, NullBodyError)
      [] r.raw = "number" -> Handle(NoFields, now)
      [] OTHER -> Handle(r.f, now)

\* at.toJwt() resolves: json({token}) or json({token, url: LK_URL})
Signed(p, token, iat) ==
    IF p = "admin:toJwt"
    THEN Reading(Return(token, <<>>,
                        Json([k \in {"token"} |-> Jwt(token, iat)],
                             DefaultStatus)), iat)
    ELSE Reading(Return(token, <<>>,
                        Json([k \in {"token", "url"} |->
                                IF k = "token" THEN Jwt(token, iat) ELSE LK_URL],
                             DefaultStatus)), iat)

Settle(issued, st) == <<[issued[1] EXCEPT !.st = st]>>

\* The platform call resolves with reply id.
Replied(p, issued, id) ==
    CASE p = "createDispatch" ->
            Return(NoToken, Settle(issued, "ok"),
                   Json([k \in {"ok", "dispatch"} |->
                            IF k = "ok" THEN TRUE ELSE id], DefaultStatus))
      [] p = "startRoomCompositeEgress" ->
            Return(NoToken, Settle(issued, "ok"),
                   Json([k \in {"ok", "egressId"} |->
                            IF k = "ok" THEN TRUE ELSE id], DefaultStatus))
      [] OTHER ->
            Return(NoToken, Settle(issued, "ok"),
                   Json([k \in {"ok"} |-> TRUE], DefaultStatus))

\* Variant: a rejected call is issued once more.
RejectedRetry(issued, e) ==
    Outcome(issued[1].op, NoToken, Settle(issued, "failed") \o issued,
            NoExc, NoResp)

\* The platform call rejects with e: the catch answers, nothing is retried.
Rejected(issued, e) == Caught(NoToken, Settle(issued, "failed"), e)

(***************************************************************************)
(* The state machine.                                                      *)
(***************************************************************************)
Init ==
    /\ pc = [h \in Handlers |-> "idle"]
    /\ req = [h \in Handlers |-> NoReq]
    /\ at = [h \in Handlers |-> NoToken]
    /\ calls = [h \in Handlers |-> <<>>]
    /\ thrown = [h \in Handlers |-> NoExc]
    /\ resp = [h \in Handlers |-> NoResp]
    /\ clock = [h \in Handlers |-> <<>>]
    /\ reply = [h \in Handlers |-> ""]
    /\ nresp = [h \in Handlers |-> 0]

Become(h, o) ==
    /\ pc' = [pc EXCEPT ![h] = o.pc]
    /\ at' = [at EXCEPT ![h] = o.at]
    /\ calls' = [calls EXCEPT ![h] = o.calls]
    /\ thrown' = [thrown EXCEPT ![h] = o.thrown]
    /\ resp' = [resp EXCEPT ![h] = o.resp]
    /\ clock' = [clock EXCEPT ![h] = clock[h] \o o.reads]

\* serve invokes the handler on a request; it runs to its first await.
Receive(h) ==
    /\ pc[h] = "idle"
    /\ \E r \in Requests, now \in Times :
          /\ req' = [req EXCEPT ![h] = r]
          /\ Become(h, Enter(r, now))
    /\ nresp' = [nresp EXCEPT ![h] = 0]
    /\ UNCHANGED reply

\* Variant: the decoded body is kept in a module-level variable, which
\* any invocation in flight may have overwritten.
JsonSettledShared(h) ==
    /\ pc[h] = "req.json"
    /\ \E g \in Handlers, now \in Times :
          /\ req[g] # NoReq
          /\ Become(h, Decoded(req[g], now))
    /\ UNCHANGED <<req, reply, nresp>>

\* await req.json() settles and the handler runs on.
JsonSettled(h) ==
    /\ pc[h] = "req.json"
    /\ \E now \in Times : Become(h, Decoded(req[h], now))
    /\ UNCHANGED <<req, reply, nresp>>

\* await at.toJwt() resolves.
JwtResolved(h) ==
    /\ pc[h] \in {"admin:toJwt", "participant:toJwt"}
    /\ \E iat \in Times : Become(h, Signed(pc[h], at[h], iat))
    /\ UNCHANGED <<req, reply, nresp>>

\* await at.toJwt() rejects.
JwtRejected(h) ==
    /\ pc[h] \in {"admin:toJwt", "participant:toJwt"}
    /\ \E e \in SignErrors : Become(h, Caught(at[h], <<>>, e))
    /\ UNCHANGED <<req, reply, nresp>>

\* The awaited platform call resolves.
CallResolved(h) ==
    /\ pc[h] \in {"createDispatch", "startRoomCompositeEgress", "stopEgress"}
    /\ \E id \in PlatformIds :
          /\ Become(h, Replied(pc[h], calls[h], id))
          /\ reply' = [reply EXCEPT ![h] = id]
    /\ UNCHANGED <<req, nresp>>

\* The awaited platform call rejects.
CallRejected(h) ==
    /\ pc[h] \in {"createDispatch", "startRoomCompositeEgress", "stopEgress"}
    /\ \E e \in PlatformErrors : Become(h, Rejected(calls[h], e))
    /\ UNCHANGED <<req, reply, nresp>>

\* serve writes the returned Response; the invocation is over.
Respond(h) ==
    /\ pc[h] = "returned"
    /\ nresp' = [nresp EXCEPT ![h] = nresp[h] + 1]
    /\ req' = [req EXCEPT ![h] = NoReq]
    /\ pc' = [pc EXCEPT ![h] = "idle"]
    /\ at' = [at EXCEPT ![h] = NoToken]
    /\ calls' = [calls EXCEPT ![h] = <<>>]
    /\ thrown' = [thrown EXCEPT ![h] = NoExc]
    /\ resp' = [resp EXCEPT ![h] = NoResp]
    /\ clock' = [clock EXCEPT ![h] = <<>>]
    /\ reply' = [reply EXCEPT ![h] = ""]

Next ==
    \E h \in Handlers :
        \/ Receive(h)
        \/ JsonSettled(h)
        \/ JwtResolved(h)
        \/ JwtRejected(h)
        \/ CallResolved(h)
        \/ CallRejected(h)
        \/ Respond(h)

Spec == Init /\ [][Next]_vars

(***************************************************************************)
(* What the properties say of a request, read off the request itself.      *)
(***************************************************************************)
\* The content type under which the body is decoded.
JsonTyped(r) ==
    r.hdr \in {JsonHeader, Header(<<"application/json", "; charset=utf-8">>)}

\* A request with a JSON body: an object, decoded.
JsonRequest(r) == JsonTyped(r) /\ r.raw = "object"

\* The action a decoded body names, lower-cased; "" when it names none.
Named(r) ==
    IF r.f.action.t \in {"undefined", "null"} THEN ""
    ELSE ToLowerCase(ToStr(r.f.action))

ValidActions ==
    {"admin-token", "participant-token", "dispatch-agent", "start-file-egress",
     "stop-egress"}

\* ttlSec as a number; absent, it is the default and valid.
GivenTtl(r) == r.f.ttlSec.t \notin {"undefined", "null"}
BadTtl(r) ==
    /\ GivenTtl(r)
    /\ LET x == ToNum(r.f.ttlSec) IN x.s # "" \/ x.n <= 0
GoodTtl(r) == ~BadTtl(r)

\* A field that is missing or empty / a non-empty string.
Missing(v) == v.t \in {"undefined", "null"} \/ (v.t = "string" /\ v.s = "")
Given(v) == v.t = "string" /\ v.s # ""

Mentions(message, word) == \E i \in 1..Len(message) : message[i] = word

Returned(h) == pc[h] = "returned"
IsError(h) == "error" \in DOMAIN resp[h].body
HasToken(h) == "token" \in DOMAIN resp[h].body
NothingDone(h) == at[h] = NoToken /\ calls[h] = <<>>

(***************************************************************************)
(* C1.  A request with valid ttlSec whose action is participant-token,     *)
(* dispatch-agent or start-file-egress and whose roomName is missing or    *)
(* empty is answered 400 with an error that mentions roomName; no token    *)
(* object is built and no platform call is issued for it.                  *)
(***************************************************************************)
C1_MissingRoomName ==
    \A h \in Handlers :
        ( /\ JsonRequest(req[h])
          /\ GoodTtl(req[h])
          /\ Named(req[h]) \in
                {"participant-token", "dispatch-agent", "start-file-egress"}
          /\ Missing(req[h].f.roomName) )
        => /\ NothingDone(h)
           /\ pc[h] \in {"req.json", "returned"}
           /\ Returned(h) =>
                /\ resp[h].status = 400
                /\ IsError(h)
                /\ Mentions(resp[h].body["error"], "roomName")

C1_Witness ==
    \E h \in Handlers :
        /\ Returned(h)
        /\ JsonRequest(req[h])
        /\ Named(req[h]) = "start-file-egress"
        /\ req[h].f.roomName = Undef
        /\ resp[h].status = 400

(***************************************************************************)
(* C2.  A request with a JSON body whose ttlSec is non-finite, zero or     *)
(* negative is answered 400 whatever its action and other fields; the      *)
(* check precedes the dispatch, so it never reaches an await of a token or *)
(* of a platform call.                                                     *)
(***************************************************************************)
C2_BadTtlRejected ==
    \A h \in Handlers :
        (JsonRequest(req[h]) /\ BadTtl(req[h]))
        => /\ NothingDone(h)
           /\ pc[h] \in {"req.json", "returned"}
           /\ Returned(h) => (resp[h].status = 400 /\ ~HasToken(h))

C2_Witness ==
    \E h \in Handlers :
        /\ Returned(h)
        /\ JsonRequest(req[h])
        /\ req[h].f.ttlSec = Num(0)
        /\ Named(req[h]) = "admin-token"
        /\ resp[h].status = 400

(***************************************************************************)
(* C3.  As claimed: the agent name in a participant token follows mode,    *)
(* "text" the text agent, "voice" the voice agent, anything else the fixed *)
(* default.  As amended: the agent name in a participant token is the      *)
(* fixed default AGENT_NAME whatever mode is.                              *)
(***************************************************************************)
TextAgentName == "text-agent"
VoiceAgentName == "voice-agent"

ParticipantSuccess(h) ==
    /\ Returned(h)
    /\ JsonRequest(req[h])
    /\ Named(req[h]) = "participant-token"
    /\ resp[h].status = 200

IssuedAgents(h) == resp[h].body["token"].claims.agents

\* C3 as claimed: the agent name of an issued participant token follows mode.
C3_AgentByMode ==
    \A h \in Handlers :
        ParticipantSuccess(h)
        => /\ Len(IssuedAgents(h)) = 1
           /\ IssuedAgents(h)[1].agentName =
                 CASE req[h].f.mode = Str("text") -> TextAgentName
                   [] req[h].f.mode = Str("voice") -> VoiceAgentName
                   [] OTHER -> AGENT_NAME

\* C3 as amended: the agent name of an issued participant token is AGENT_NAME
\* whatever mode is.
C3_AgentFixed ==
    \A h \in Handlers :
        ParticipantSuccess(h)
        => /\ HasToken(h)
           /\ Len(IssuedAgents(h)) = 1
           /\ IssuedAgents(h)[1].agentName = AGENT_NAME

C3_Witness ==
    \E h \in Handlers :
        /\ ParticipantSuccess(h)
        /\ req[h].f.mode = Str("voice")
        /\ IssuedAgents(h)[1].agentName = AGENT_NAME

(***************************************************************************)
(* C4.  A stop-egress request with valid ttlSec and a non-empty egressId   *)
(* calls stopEgress once, with that id; no Response exists while the call  *)
(* is pending, and a call that resolved is answered 200 {ok: true}.        *)
(***************************************************************************)
StopRequest(h) ==
    /\ JsonRequest(req[h])
    /\ GoodTtl(req[h])
    /\ Named(req[h]) = "stop-egress"
    /\ Given(req[h].f.egressId)

\* C4: one stopEgress call with the request's egressId, no Response while it
\* is pending, 200 {ok: true} once it resolved.
C4_StopEgressOnce ==
    \A h \in Handlers :
        StopRequest(h)
        => /\ pc[h] \in {"req.json", "stopEgress", "returned"}
           /\ pc[h] = "req.json" => calls[h] = <<>>
           /\ pc[h] # "req.json" =>
                /\ Len(calls[h]) = 1
                /\ calls[h][1].op = "stopEgress"
                /\ calls[h][1].args.egressId = req[h].f.egressId.s
           /\ pc[h] = "stopEgress" =>
                (calls[h][1].st = "pending" /\ resp[h] = NoResp)
           /\ Returned(h) =>
                /\ calls[h][1].st # "pending"
                /\ calls[h][1].st = "ok" =>
                      /\ resp[h].status = 200
                      /\ resp[h].body = [k \in {"ok"} |-> TRUE]

C4_Witness ==
    \E h \in Handlers :
        /\ StopRequest(h)
        /\ Returned(h)
        /\ req[h].f.egressId = Str("EG_456")
        /\ calls[h][1].st = "ok"
        /\ resp[h].status = 200

(***************************************************************************)
(* C5.  A request with a JSON body and valid ttlSec whose lower-cased      *)
(* action is none of the five is answered 400 with an error that lists all *)
(* five; no token object is built and no platform call is issued.          *)
(***************************************************************************)
C5_UnknownAction ==
    \A h \in Handlers :
        ( /\ JsonRequest(req[h])
          /\ GoodTtl(req[h])
          /\ Named(req[h]) \notin ValidActions )
        => /\ NothingDone(h)
           /\ pc[h] \in {"req.json", "returned"}
           /\ Returned(h) =>
                /\ resp[h].status = 400
                /\ IsError(h)
                /\ \A a \in ValidActions : Mentions(resp[h].body["error"], a)

C5_Witness ==
    \E h \in Handlers :
        /\ Returned(h)
        /\ JsonRequest(req[h])
        /\ req[h].f.action = Str("frobnicate")
        /\ GoodTtl(req[h])
        /\ resp[h].status = 400

(***************************************************************************)
(* C6.  An exception raised while a request is handled (the body does not  *)
(* decode, a property of a null body is read, the signature fails, the     *)
(* platform call fails) is caught: the invocation returns 400 with body    *)
(* {error: String(e)}, and a failed platform call is never answered 200.   *)
(***************************************************************************)
CallFailed(h) == calls[h] # <<>> /\ calls[h][1].st = "failed"

\* The invocation is over, and an exception was raised on its way.
Raised(h) ==
    /\ Returned(h)
    /\ \/ JsonTyped(req[h]) /\ req[h].raw \in {"garbage", "null"}
       \/ CallFailed(h)
       \/ at[h] # NoToken /\ ~HasToken(h)

\* C6: every exception raised is caught and answered 400 {error: String(e)};
\* a failed platform call is never answered 200.
C6_ExceptionsCaught ==
    \A h \in Handlers :
        /\ Raised(h) => thrown[h] # NoExc
        /\ thrown[h] # NoExc =>
              /\ Returned(h)
              /\ resp[h] = Json([k \in {"error"} |-> ErrString(thrown[h])], 400)
        /\ CallFailed(h) => (Returned(h) /\ resp[h].status = 400)

C6_Witness ==
    \E h \in Handlers :
        /\ Returned(h)
        /\ CallFailed(h)
        /\ calls[h][1].op = "createDispatch"
        /\ resp[h].status = 400
        /\ resp[h].body["error"] = <<"TwirpError", ": ", "not_found">>

(***************************************************************************)
(* C7.  As claimed: a request whose content type is absent or is not JSON  *)
(* fails with the required-field error of the action its body names (the   *)
(* roomName error for the room actions, the egressId error for             *)
(* stop-egress).  As amended: its body is taken to be empty, so whatever   *)
(* the body names the request is answered 400 with the unknown-action      *)
(* error, and nothing is decoded, signed or called.                        *)
(***************************************************************************)
RequiredField(a) ==
    CASE a \in {"participant-token", "dispatch-agent", "start-file-egress"} ->
            "roomName"
      [] a = "stop-egress" -> "egressId"
      [] OTHER -> "action"

Untyped(h) == req[h] # NoReq /\ ~JsonTyped(req[h])

\* C7 as claimed: without a JSON content type the answer is the 400
\* required-field error of the action the body names.
C7_RequiredFieldOfNamedAction ==
    \A h \in Handlers :
        (Untyped(h) /\ Returned(h) /\ req[h].raw = "object")
        => /\ resp[h].status = 400
           /\ Mentions(resp[h].body["error"], RequiredField(Named(req[h])))

\* C7 as amended: without a JSON content type the answer is the 400
\* unknown-action error, at once, whatever the body names.
C7_UntypedIsUnknownAction ==
    \A h \in Handlers :
        Untyped(h)
        => /\ Returned(h)
           /\ NothingDone(h)
           /\ thrown[h] = NoExc
           /\ resp[h] = Json([k \in {"error"} |-> UNKNOWN_MSG], 400)

C7_Witness ==
    \E h \in Handlers :
        /\ Untyped(h)
        /\ Returned(h)
        /\ req[h].hdr = Header(<<"text/plain">>)
        /\ req[h].raw = "object"
        /\ Named(req[h]) = "dispatch-agent"
        /\ resp[h].status = 400

(***************************************************************************)
(* C8.  An invocation that returned holds one Response: content type      *)
(* application/json, status 200 or 400, an error field exactly when the    *)
(* status is 400, and under 200 the payload of the action it dispatched.   *)
(* That Response is written once; before the return there is none.         *)
(***************************************************************************)
Payload(a) ==
    CASE a = "admin-token" -> {"token"}
      [] a = "participant-token" -> {"token", "url"}
      [] a = "dispatch-agent" -> {"ok", "dispatch"}
      [] a = "start-file-egress" -> {"ok", "egressId"}
      [] a = "stop-egress" -> {"ok"}
      [] OTHER -> {}

\* C8: one JSON Response per request, status 200 or 400, an error field
\* exactly under 400, the action's payload under 200.
C8_OneJsonResponse ==
    \A h \in Handlers :
        /\ nresp[h] <= 1
        /\ pc[h] # "idle" => nresp[h] = 0
        /\ ~Returned(h) => resp[h] = NoResp
        /\ Returned(h) =>
              /\ DOMAIN resp[h].headers = {"content-type"}
              /\ resp[h].headers["content-type"] = "application/json"
              /\ resp[h].status \in {200, 400}
              /\ IsError(h) <=> resp[h].status = 400
              /\ resp[h].status = 400 => DOMAIN resp[h].body = {"error"}
              /\ resp[h].status = 200 =>
                    /\ JsonRequest(req[h])
                    /\ DOMAIN resp[h].body = Payload(Named(req[h]))
                    /\ "ok" \in DOMAIN resp[h].body => resp[h].body["ok"] = TRUE
                    /\ "url" \in DOMAIN resp[h].body => resp[h].body["url"] = LK_URL
                    /\ "egressId" \in DOMAIN resp[h].body =>
                          resp[h].body["egressId"] = reply[h]
                    /\ "dispatch" \in DOMAIN resp[h].body =>
                          resp[h].body["dispatch"] = reply[h]

C8_Witness ==
    \E h \in Handlers :
        /\ Returned(h)
        /\ resp[h].status = 200
        /\ Named(req[h]) = "start-file-egress"
        /\ resp[h].body["egressId"] = "ID_2"

(***************************************************************************)
(* C9.  An invocation issues at most one platform call and never a second: *)
(* none for admin-token and participant-token, one for dispatch-agent,     *)
(* start-file-egress and stop-egress with their required field, and a      *)
(* failed call ends the request.                                           *)
(***************************************************************************)
PlatformCall(a) ==
    CASE a = "dispatch-agent" -> "createDispatch"
      [] a = "start-file-egress" -> "startRoomCompositeEgress"
      [] a = "stop-egress" -> "stopEgress"
      [] OTHER -> ""

FieldGiven(r) ==
    IF Named(r) = "stop-egress" THEN Given(r.f.egressId) ELSE Given(r.f.roomName)

\* C9: at most one platform call per request, none for the token actions,
\* one for the platform actions with their field given, no retry.
C9_AtMostOneCall ==
    \A h \in Handlers :
        /\ Len(calls[h]) <= 1
        /\ (JsonRequest(req[h]) /\
              Named(req[h]) \in {"admin-token", "participant-token"})
           => calls[h] = <<>>
        /\ ( /\ JsonRequest(req[h])
             /\ GoodTtl(req[h])
             /\ PlatformCall(Named(req[h])) # ""
             /\ FieldGiven(req[h])
             /\ pc[h] # "req.json" )
           => /\ Len(calls[h]) = 1
              /\ calls[h][1].op = PlatformCall(Named(req[h]))
              /\ pc[h] \in {calls[h][1].op, "returned"}
        /\ CallFailed(h) => Returned(h)

C9_Witness ==
    \E h \in Handlers :
        /\ Returned(h)
        /\ Named(req[h]) = "start-file-egress"
        /\ Len(calls[h]) = 1
        /\ CallFailed(h)

(***************************************************************************)
(* C10.  As claimed: what an invocation has done (token, calls, Response)  *)
(* is fixed by its own request and the platform's answer to its own call,  *)
(* whatever the other invocations do.  As amended: it is fixed by its own  *)
(* request, the clock readings it took itself and the answer to its own    *)
(* call; two invocations of the same request are each carried out.         *)
(***************************************************************************)
SameInputs(g, h) ==
    /\ pc[g] = pc[h]
    /\ req[g] = req[h]
    /\ reply[g] = reply[h]
    /\ thrown[g] = thrown[h]

SameOutputs(g, h) ==
    /\ at[g] = at[h]
    /\ calls[g] = calls[h]
    /\ resp[g] = resp[h]

\* C10 as claimed: same request and same platform answer, same token, calls
\* and Response.
C10_FixedByRequestAndReply ==
    \A g, h \in Handlers : SameInputs(g, h) => SameOutputs(g, h)

\* C10 as amended: same request, same clock readings and same platform
\* answer, same token, calls and Response.
C10_FixedByRequestClockAndReply ==
    \A g, h \in Handlers :
        (SameInputs(g, h) /\ clock[g] = clock[h]) => SameOutputs(g, h)

C10_Witness ==
    \E g, h \in Handlers :
        /\ g # h
        /\ SameInputs(g, h)
        /\ clock[g] = clock[h]
        /\ Returned(g)
        /\ Named(req[g]) = "start-file-egress"
        /\ resp[g].status = 200
        /\ calls[g] = calls[h]
        /\ Len(calls[h]) = 1
====
